---- MODULE Spec2Model ----
(***************************************************************************)
(* A model of markitup/widgets.py: the BuildAttrsCompat mixin, the         *)
(* MarkupInput value unwrapping, MarkItUpWidget (constructor, media,       *)
(* render) and AdminMarkItUpWidget.                                        *)
(*                                                                         *)
(* Python values are modelled as follows.                                  *)
(*   - an attribute mapping (dict) is a function from a set of keys to     *)
(*     attribute values; an attribute value (a str) is a sequence of       *)
(*     string pieces, so that a hook can append to it;                     *)
(*   - an optional value is a sequence of length 0 (None) or 1;            *)
(*   - a URL path is a record [abs, segs]: whether it is absolute, and     *)
(*     its path segments;                                                  *)
(*   - a field value is a record [kind, text, raw]: kind "None", "str"     *)
(*     (text is the string) or "Markup" (an object with a raw attribute,   *)
(*     whose own string form is text);                                     *)
(*   - a call's outcome is a record with a status: "ok" or the exception   *)
(*     that left the call.                                                 *)
(***************************************************************************)
EXTENDS Integers, Sequences, FiniteSets, TLC

\* ------------------------------------------------------------- bounds
\* How many distinct id values the callers use.
MaxIds == 2
\* How many distinct directory names the settings and constructor use.
MaxDirs == 2

\* ------------------------------------------------------------- values
None == <<>>
Some(x) == <<x>>
IsNone(o) == Len(o) = 0
Get(o) == o[1]

EmptyDict == [k \in {} |-> <<>>]
\* dict.update / {**d, **e}: the entries of e override those of d.
Update(d, e) ==
    [k \in (DOMAIN d) \cup (DOMAIN e) |-> IF k \in DOMAIN e THEN e[k] ELSE d[k]]
Without(d, k) == [j \in (DOMAIN d) \ {k} |-> d[j]]

IdPool == <<"id_a", "id_b", "id_c", "id_d">>
IdVals == {<<IdPool[i]>> : i \in 1..MaxIds}
ClassVals == {<<"wide">>}
Names == {<<"body">>}

\* The attribute mappings a caller passes: any subset of {id, class}.
CallerDicts ==
    UNION {[ks -> IdVals \cup ClassVals] : ks \in SUBSET {"id", "class"}}
AttrDicts ==
    {d \in CallerDicts :
        /\ ("id" \in DOMAIN d => d["id"] \in IdVals)
        /\ ("class" \in DOMAIN d => d["class"] \in ClassVals)}
OptAttrDicts == {None} \cup {Some(d) : d \in AttrDicts}

\* ------------------------------------------------- build_attrs_extra
\* The subclasses considered: the mixin's own default, and overrides of
\* build_attrs_extra that add a marker attribute, append to the id, or
\* drop the id.
Hooks == {"default", "marker", "suffix", "dropid"}

build_attrs_extra_default(attrs) == attrs

build_attrs_extra(hook, attrs) ==
    CASE hook = "default" -> build_attrs_extra_default(attrs)
      [] hook = "marker"  -> Update(attrs, [marker |-> <<"1">>])
      [] hook = "suffix"  -> IF "id" \in DOMAIN attrs
                             THEN [attrs EXCEPT !["id"] = Append(@, "_miu")]
                             ELSE attrs
      [] hook = "dropid"  -> Without(attrs, "id")

\* ------------------------------------ forms.Widget.build_attrs (Django)
\* Django >= 1.11: build_attrs(self, base_attrs, extra_attrs=None).
Widget_build_attrs_new(base_attrs, extra_attrs) ==
    IF IsNone(extra_attrs) THEN base_attrs ELSE Update(base_attrs, Get(extra_attrs))

\* Django < 1.11: build_attrs(self, extra_attrs=None, **kwargs).
Widget_build_attrs_old(self_attrs, extra_attrs, kwargs) ==
    LET attrs == Update(self_attrs, kwargs)
    IN  IF IsNone(extra_attrs) \/ DOMAIN Get(extra_attrs) = {}
        THEN attrs
        ELSE Update(attrs, Get(extra_attrs))

\* ------------------------------------------------- BuildAttrsCompat
\* A call of self.build_attrs: the positional arguments (optional
\* mappings), extra_attrs when it is given by keyword, and the other
\* keyword arguments.
Args(pos, extra_kw, kwargs) == [pos |-> pos, extra_kw |-> extra_kw, kwargs |-> kwargs]

\* The outcome of a build_attrs call: the mapping returned, and how many
\* times build_attrs_extra ran.
Raise(exc) == [status |-> exc, ret |-> EmptyDict, hooks |-> 0]
Return(attrs, n) == [status |-> "ok", ret |-> attrs, hooks |-> n]

\* def build_attrs(self, base_attrs, extra_attrs=None)
build_attrs_new_style(w, a) ==
    IF \/ Len(a.pos) = 0
       \/ Len(a.pos) > 2
       \/ (Len(a.pos) = 2 /\ ~IsNone(a.extra_kw))
       \/ DOMAIN a.kwargs # {}
    THEN Raise("TypeError")
    ELSE LET base_attrs == a.pos[1]
             extra_attrs == IF Len(a.pos) = 2 THEN a.pos[2]
                            ELSE IF ~IsNone(a.extra_kw) THEN Get(a.extra_kw)
                            ELSE None
         IN  IF IsNone(base_attrs)
             THEN Raise("AttributeError")
             ELSE Return(build_attrs_extra(w.hook,
                             Widget_build_attrs_new(Get(base_attrs), extra_attrs)), 1)

\* def build_attrs(self, extra_attrs=None, **kwargs)
build_attrs_old_style(w, a) ==
    IF \/ Len(a.pos) > 1
       \/ (Len(a.pos) = 1 /\ ~IsNone(a.extra_kw))
    THEN Raise("TypeError")
    ELSE LET extra_attrs == IF Len(a.pos) = 1 THEN a.pos[1]
                            ELSE IF ~IsNone(a.extra_kw) THEN Get(a.extra_kw)
                            ELSE None
         IN  Return(build_attrs_extra(w.hook,
                        Widget_build_attrs_old(w.attrs, extra_attrs, a.kwargs)), 1)

build_attrs(new_style, w, a) ==
    IF new_style THEN build_attrs_new_style(w, a) ELSE build_attrs_old_style(w, a)

\* The outcome of build_attrs_compat: that of the build, and base_attrs
\* as the caller holds it once the call is over.
CompatResult(r, base_after) ==
    [status |-> r.status, ret |-> r.ret, hooks |-> r.hooks, base_after |-> base_after]

\* build_attrs_compat(self, base_attrs, extra_attrs=None), new variant:
\* delegates to self.build_attrs, which copies base_attrs.
build_attrs_compat_new_style(w, base_attrs, extra_attrs) ==
    CompatResult(
        build_attrs_new_style(w, Args(<<base_attrs>>, Some(extra_attrs), EmptyDict)),
        base_attrs)

\* As build_attrs_compat_old_style, without the hook.
build_attrs_compat_old_style_no_hook(w, base_attrs, extra_attrs) ==
    IF IsNone(base_attrs)
    THEN CompatResult(Raise("AttributeError"), base_attrs)
    ELSE LET attrs == IF IsNone(extra_attrs) THEN Get(base_attrs)
                      ELSE Update(Get(base_attrs), Get(extra_attrs))
         IN  CompatResult(Return(attrs, 0), base_attrs)

\* As build_attrs_compat_old_style, updating base_attrs itself instead of
\* a copy of it.
build_attrs_compat_old_style_no_copy(w, base_attrs, extra_attrs) ==
    IF IsNone(base_attrs)
    THEN CompatResult(Raise("AttributeError"), base_attrs)
    ELSE LET attrs == IF IsNone(extra_attrs) THEN Get(base_attrs)
                      ELSE Update(Get(base_attrs), Get(extra_attrs))
         IN  CompatResult(Return(build_attrs_extra(w.hook, attrs), 1), Some(attrs))

\* build_attrs_compat, old variant: attrs = base_attrs.copy(), then
\* attrs.update(extra_attrs), then the hook.  The update is made on the
\* copy, so base_attrs keeps its entries.
build_attrs_compat_old_style(w, base_attrs, extra_attrs) ==
    IF IsNone(base_attrs)
    THEN CompatResult(Raise("AttributeError"), base_attrs)
    ELSE LET attrs == IF IsNone(extra_attrs) THEN Get(base_attrs)
                      ELSE Update(Get(base_attrs), Get(extra_attrs))
         IN  CompatResult(Return(build_attrs_extra(w.hook, attrs), 1), base_attrs)

build_attrs_compat(new_style, w, base_attrs, extra_attrs) ==
    IF new_style
    THEN build_attrs_compat_new_style(w, base_attrs, extra_attrs)
    ELSE build_attrs_compat_old_style(w, base_attrs, extra_attrs)

\* ------------------------------------------------------------- paths
EmptyStr == [abs |-> FALSE, segs |-> <<>>]
Rel(segs) == [abs |-> FALSE, segs |-> segs]
Abs(segs) == [abs |-> TRUE, segs |-> segs]
\* Python truthiness of a str.
Truthy(p) == p.abs \/ Len(p.segs) > 0

STATIC_URL == <<"static">>

\* markitup.util.absolute_url: an absolute path or URL is kept, a
\* relative one is resolved against STATIC_URL.
absolute_url(path) ==
    IF path.abs THEN path ELSE Abs(STATIC_URL \o path.segs)

\* posixpath.join(directory, file) for a relative file name.
posixpath_join(dir, file) == [abs |-> dir.abs, segs |-> dir.segs \o <<file>>]

DirPool == <<"default", "markdown", "textile", "simple">>
Dirs == {DirPool[i] : i \in 1..MaxDirs}
\* The values given for a directory option: relative to STATIC_URL, or absolute.
DirPaths == {Rel(<<"markitup", d>>) : d \in Dirs} \cup {Abs(<<"cdn", "miu">>)}

\* ---------------------------------------------------------- settings
SettingsSet ==
    [MARKITUP_SET : {Rel(<<"markitup", "sets", "default">>)},
     MARKITUP_SKIN : {Rel(<<"markitup", "skins", "simple">>)},
     MARKITUP_AUTO_PREVIEW : BOOLEAN,
     JQUERY_URL : {None, Some(Abs(<<"ajax.googleapis.com", "jquery.min.js">>))}]

\* ------------------------------------------------------- constructors
\* The keyword arguments of MarkItUpWidget.__init__; None when omitted.
CtorArgs ==
    [attrs : OptAttrDicts,
     markitup_set : {None, Some(EmptyStr)} \cup {Some(p) : p \in DirPaths},
     markitup_skin : {None, Some(EmptyStr)} \cup {Some(p) : p \in DirPaths},
     auto_preview : {None, Some(TRUE), Some(FALSE)}]

\* `x or default` for an optional str x.
OrElse(x, default) == IF ~IsNone(x) /\ Truthy(Get(x)) THEN Get(x) ELSE default

\* As miu_set_of, ignoring the constructor argument.
miu_set_of_setting(st, markitup_set) == absolute_url(st.MARKITUP_SET)

miu_set_of(st, markitup_set) == absolute_url(OrElse(markitup_set, st.MARKITUP_SET))
miu_skin_of(st, markitup_skin) == absolute_url(OrElse(markitup_skin, st.MARKITUP_SKIN))
auto_preview_of(st, auto_preview) ==
    IF IsNone(auto_preview) THEN st.MARKITUP_AUTO_PREVIEW ELSE Get(auto_preview)

\* forms.Textarea.__init__ and forms.Widget.__init__: the default cols and
\* rows, overridden by the attrs given; self.attrs is a copy.
Textarea_init(attrs) ==
    LET default_attrs == [cols |-> <<"40">>, rows |-> <<"10">>]
    IN  IF IsNone(attrs) THEN default_attrs ELSE Update(default_attrs, Get(attrs))

\* As AdminTextareaWidget_init, without the update by the attrs given.
AdminTextareaWidget_init_class_only(attrs) ==
    Textarea_init(Some([class |-> <<"vLargeTextField">>]))

\* AdminTextareaWidget.__init__: class vLargeTextField unless attrs gives one.
AdminTextareaWidget_init(attrs) ==
    LET final_attrs == [class |-> <<"vLargeTextField">>]
    IN  Textarea_init(Some(IF IsNone(attrs) THEN final_attrs
                           ELSE Update(final_attrs, Get(attrs))))

\* MarkItUpWidget.__init__
MarkItUpWidget_init(st, hook, kw) ==
    [miu_set |-> miu_set_of(st, kw.markitup_set),
     miu_skin |-> miu_skin_of(st, kw.markitup_skin),
     auto_preview |-> auto_preview_of(st, kw.auto_preview),
     attrs |-> Textarea_init(kw.attrs),
     hook |-> hook, compat |-> TRUE]

\* AdminMarkItUpWidget: MarkItUpWidget.__init__, whose super().__init__
\* reaches AdminTextareaWidget.__init__ before Textarea's.
AdminMarkItUpWidget_init(st, hook, kw) ==
    [MarkItUpWidget_init(st, hook, kw) EXCEPT !.attrs = AdminTextareaWidget_init(kw.attrs)]

\* MarkupTextarea: MarkupInput over forms.Textarea, without the mixin.
MarkupTextarea_init(st, kw) ==
    [MarkItUpWidget_init(st, "default", kw) EXCEPT !.compat = FALSE]

\* ------------------------------------------------------------- media
JsFixed == <<absolute_url(Rel(<<"markitup", "ajax_csrf.js">>)),
             absolute_url(Rel(<<"markitup", "jquery.markitup.js">>))>>

\* As MarkItUpWidget_media, with the two stylesheets in the other order.
MarkItUpWidget_media_set_first(st, w) ==
    LET js_media == IF ~IsNone(st.JQUERY_URL)
                    THEN <<absolute_url(Get(st.JQUERY_URL))>> ELSE <<>>
    IN  [css |-> <<posixpath_join(w.miu_set, "style.css"),
                   posixpath_join(w.miu_skin, "style.css")>>,
         js |-> js_media \o JsFixed \o <<posixpath_join(w.miu_set, "set.js")>>]

\* MarkItUpWidget._media: the css and js handed to forms.Media.
MarkItUpWidget_media(st, w) ==
    LET js_media == IF ~IsNone(st.JQUERY_URL)
                    THEN <<absolute_url(Get(st.JQUERY_URL))>> ELSE <<>>
    IN  [css |-> <<posixpath_join(w.miu_skin, "style.css"),
                   posixpath_join(w.miu_set, "style.css")>>,
         js |-> js_media \o JsFixed \o <<posixpath_join(w.miu_set, "set.js")>>]

\* ------------------------------------------------------------ values
NoneValue == [kind |-> "None", text |-> "", raw |-> ""]
Str(t) == [kind |-> "str", text |-> t, raw |-> ""]
\* A MarkupField value: str(value) is the rendered markup, value.raw the source.
Markup(raw, rendered) == [kind |-> "Markup", text |-> rendered, raw |-> raw]
Values == {NoneValue, Str(""), Str("plain"), Markup("*raw*", "<em>raw</em>")}

\* Whether reading value.raw succeeds (otherwise AttributeError).
HasRaw(value) == value.kind = "Markup"

\* As MarkupInput_value, without the unwrapping of value.raw.
MarkupInput_value_kept(value) == value

\* MarkupInput.render: the value handed to the base class's render.
MarkupInput_value(value) ==
    IF value.kind # "None"
    THEN IF HasRaw(value) THEN Str(value.raw) ELSE value
    ELSE value

\* force_text / format_value of the base text area: None renders as empty.
force_text(value) == IF value.kind = "None" THEN "" ELSE value.text

\* self.build_attrs as the widget's class resolves it: the mixin's method,
\* or Django's own for a widget without the mixin.
self_build_attrs(new_style, w, a) ==
    IF w.compat THEN build_attrs(new_style, w, a)
    ELSE build_attrs(new_style, [w EXCEPT !.hook = "default"], a)

\* forms.Textarea.render: the <textarea> element's attributes and content.
\* Django >= 1.11 builds the attributes in get_context with
\* build_attrs(self.attrs, attrs) and renders the name beside them;
\* Django < 1.11 calls build_attrs(attrs, name=name).
Textarea_render(new_style, w, name, value, attrs) ==
    LET r == IF new_style
             THEN self_build_attrs(new_style, w, Args(<<Some(w.attrs), attrs>>, None, EmptyDict))
             ELSE self_build_attrs(new_style, w, Args(<<attrs>>, None, [name |-> name]))
    IN  [status |-> r.status,
         attrs |-> IF new_style THEN Update([name |-> name], r.ret) ELSE r.ret,
         content |-> force_text(value),
         passed |-> value]

\* MarkupInput.render; passed is the value the base class's render received.
MarkupInput_render(new_style, w, name, value, attrs) ==
    Textarea_render(new_style, w, name, MarkupInput_value(value), attrs)

\* ------------------------------------------------------------ render
PreviewUrl == Abs(<<"markitup", "preview">>)

\* reverse('markitup_preview'): the URL, or None for NoReverseMatch.
reverse(route) == IF route THEN Some(PreviewUrl) ELSE None

NoElement == [attrs |-> EmptyDict, content |-> ""]
NoEditor == [textarea_id |-> <<>>, AUTO_PREVIEW |-> FALSE, preview_url |-> EmptyStr]

\* A render call left by an exception: nothing is returned.
RenderRaise(exc, passed, reversed, no_match) ==
    [status |-> exc, textarea |-> NoElement, editor |-> NoEditor,
     passed |-> passed, reversed |-> reversed, no_match |-> no_match]

\* The preview_url of lines 136-139.
preview_url_of(route) ==
    IF IsNone(reverse(route)) THEN EmptyStr ELSE Get(reverse(route))

\* MarkItUpWidget.render.  reversed: line 137 was reached; no_match: the
\* NoReverseMatch handler ran.
MarkItUpWidget_render(new_style, route, w, name, value, attrs) ==
    LET html == MarkupInput_render(new_style, w, name, value, attrs)
        base_attrs == build_attrs(new_style, w, Args(<<attrs>>, None, [name |-> name]))
        final_attrs == build_attrs_compat(new_style, w, Some(base_attrs.ret), attrs)
        no_match == IsNone(reverse(route))
    IN  IF html.status # "ok"
        THEN RenderRaise(html.status, html.passed, FALSE, FALSE)
        ELSE IF base_attrs.status # "ok"
        THEN RenderRaise(base_attrs.status, html.passed, FALSE, FALSE)
        ELSE IF final_attrs.status # "ok"
        THEN RenderRaise(final_attrs.status, html.passed, FALSE, FALSE)
        ELSE IF "id" \notin DOMAIN final_attrs.ret
        THEN RenderRaise("KeyError", html.passed, TRUE, no_match)
        ELSE [status |-> "ok",
              textarea |-> [attrs |-> html.attrs, content |-> html.content],
              editor |-> [textarea_id |-> final_attrs.ret["id"],
                          AUTO_PREVIEW |-> w.auto_preview,
                          preview_url |-> preview_url_of(route)],
              passed |-> html.passed,
              reversed |-> TRUE, no_match |-> no_match]

\* ------------------------------------------------------------- state
VARIABLES
    new_style_build_attrs,  \* the module-level flag of lines 22-24
    settings,               \* markitup.settings
    route,                  \* whether the URL conf names 'markitup_preview'
    hook,                   \* which build_attrs_extra the widget's class has
    ctor,                   \* the keyword arguments the widgets were built with
    widget,                 \* a MarkItUpWidget
    admin,                  \* an AdminMarkItUpWidget built with the same arguments
    plain,                  \* a MarkupTextarea built with the same attrs
    call,                   \* the call in progress or just returned
    after,                  \* the caller's mappings once the call is over
    result                  \* what the call returned or raised

vars == <<new_style_build_attrs, settings, route, hook, ctor, widget, admin,
          plain, call, after, result>>

Targets == {"widget", "admin"}
Self(target) == IF target = "admin" THEN admin ELSE widget

NoCall == [op |-> "none", target |-> "widget", name |-> <<>>, value |-> NoneValue,
           attrs |-> None, base_attrs |-> None, extra_attrs |-> None,
           kwargs |-> EmptyDict]
NoMedia == [css |-> <<>>, js |-> <<>>]
NoResult == [status |-> "none", textarea |-> NoElement, editor |-> NoEditor,
             reversed |-> FALSE, no_match |-> FALSE, passed |-> NoneValue,
             ret |-> EmptyDict, hooks |-> 0, media |-> NoMedia]
Held(c) == [attrs |-> c.attrs, base_attrs |-> c.base_attrs, extra_attrs |-> c.extra_attrs]

Idle == call.op = "none"

Constructed(st, h, kw) ==
    /\ widget = MarkItUpWidget_init(st, h, kw)
    /\ admin = AdminMarkItUpWidget_init(st, h, kw)
    /\ plain = MarkupTextarea_init(st, kw)

DefaultSettings ==
    [MARKITUP_SET |-> Rel(<<"markitup", "sets", "default">>),
     MARKITUP_SKIN |-> Rel(<<"markitup", "skins", "simple">>),
     MARKITUP_AUTO_PREVIEW |-> FALSE,
     JQUERY_URL |-> None]

InitCommon ==
    /\ Constructed(settings, hook, ctor)
    /\ call = NoCall
    /\ after = Held(NoCall)
    /\ result = NoResult

\* Widgets of every subclass and attrs, under the default paths.
Init ==
    /\ new_style_build_attrs \in BOOLEAN
    /\ settings = DefaultSettings
    /\ route \in BOOLEAN
    /\ hook \in Hooks
    /\ ctor \in {kw \in CtorArgs : /\ IsNone(kw.markitup_set)
                                   /\ IsNone(kw.markitup_skin)
                                   /\ kw.auto_preview # Some(FALSE)}
    /\ InitCommon

\* Widgets of every configuration, of the mixin's own class.
InitConfig ==
    /\ new_style_build_attrs = TRUE
    /\ settings \in SettingsSet
    /\ route = TRUE
    /\ hook = "default"
    /\ ctor \in {kw \in CtorArgs : IsNone(kw.attrs)}
    /\ InitCommon

Frame == UNCHANGED <<new_style_build_attrs, settings, route, hook, ctor, widget,
                     admin, plain>>

\* widget.render(name, value, attrs) on the MarkItUpWidget or its admin variant.
Render(target, name, value, attrs) ==
    LET c == [NoCall EXCEPT !.op = "render", !.target = target, !.name = name,
                            !.value = value, !.attrs = attrs]
        r == MarkItUpWidget_render(new_style_build_attrs, route, Self(target),
                                   name, value, attrs)
    IN  /\ call' = c
        /\ after' = Held(c)
        /\ result' = [NoResult EXCEPT !.status = r.status, !.textarea = r.textarea,
                                      !.editor = r.editor, !.reversed = r.reversed,
                                      !.no_match = r.no_match,
                                      !.passed = r.passed]
        /\ Frame

\* MarkupTextarea.render(name, value, attrs).
RenderMarkupTextarea(name, value, attrs) ==
    LET c == [NoCall EXCEPT !.op = "render_textarea", !.name = name,
                            !.value = value, !.attrs = attrs]
        r == MarkupInput_render(new_style_build_attrs, plain, name, value, attrs)
    IN  /\ call' = c
        /\ after' = Held(c)
        /\ result' = [NoResult EXCEPT !.status = r.status,
                                      !.textarea = [attrs |-> r.attrs, content |-> r.content],
                                      !.passed = r.passed]
        /\ Frame

\* widget.media
Media(target) ==
    LET c == [NoCall EXCEPT !.op = "media", !.target = target]
    IN  /\ call' = c
        /\ after' = Held(c)
        /\ result' = [NoResult EXCEPT !.status = "ok",
                                      !.media = MarkItUpWidget_media(settings, Self(target))]
        /\ Frame

\* widget.build_attrs, called with the signature of the variant in force:
\* build_attrs(base_attrs, extra_attrs) or build_attrs(extra_attrs, **kwargs).
BuildAttrs(base_attrs, extra_attrs, kwargs) ==
    LET c == IF new_style_build_attrs
             THEN [NoCall EXCEPT !.op = "build_attrs", !.base_attrs = Some(base_attrs),
                                 !.extra_attrs = extra_attrs]
             ELSE [NoCall EXCEPT !.op = "build_attrs", !.extra_attrs = extra_attrs,
                                 !.kwargs = kwargs]
        a == IF new_style_build_attrs
             THEN Args(<<Some(base_attrs), extra_attrs>>, None, EmptyDict)
             ELSE Args(<<extra_attrs>>, None, kwargs)
        r == build_attrs(new_style_build_attrs, widget, a)
    IN  /\ call' = c
        /\ after' = Held(c)
        /\ result' = [NoResult EXCEPT !.status = r.status, !.ret = r.ret,
                                      !.hooks = r.hooks]
        /\ Frame

\* widget.build_attrs_compat(base_attrs, extra_attrs)
BuildAttrsCompat(base_attrs, extra_attrs) ==
    LET c == [NoCall EXCEPT !.op = "build_attrs_compat", !.base_attrs = Some(base_attrs),
                            !.extra_attrs = extra_attrs]
        r == build_attrs_compat(new_style_build_attrs, widget, Some(base_attrs), extra_attrs)
    IN  /\ call' = c
        /\ after' = [Held(c) EXCEPT !.base_attrs = r.base_after]
        /\ result' = [NoResult EXCEPT !.status = r.status, !.ret = r.ret,
                                      !.hooks = r.hooks]
        /\ Frame

\* The caller is done with the result.
Done ==
    /\ ~Idle
    /\ call' = NoCall
    /\ after' = Held(NoCall)
    /\ result' = NoResult
    /\ Frame

\* The recorded call made once more, with the same arguments: the
\* mappings are the caller's own objects, as the first call left them.
Repeat ==
    /\ ~Idle
    /\ \/ call.op = "render"
          /\ Render(call.target, call.name, call.value, after.attrs)
       \/ call.op = "render_textarea"
          /\ RenderMarkupTextarea(call.name, call.value, after.attrs)
       \/ call.op = "media" /\ Media(call.target)
       \/ call.op = "build_attrs"
          /\ BuildAttrs(IF IsNone(after.base_attrs) THEN EmptyDict ELSE Get(after.base_attrs),
                        after.extra_attrs, call.kwargs)
       \/ call.op = "build_attrs_compat"
          /\ BuildAttrsCompat(Get(after.base_attrs), after.extra_attrs)

\* A new call with any arguments, the recorded call once more, or the
\* caller dropping the result.
Next ==
    \/ Idle /\ \E t \in Targets, n \in Names, v \in Values, a \in OptAttrDicts :
                  Render(t, n, v, a)
    \/ Idle /\ \E n \in Names, v \in Values, a \in OptAttrDicts :
                  RenderMarkupTextarea(n, v, a)
    \/ Idle /\ \E t \in Targets : Media(t)
    \/ Idle /\ \E b \in AttrDicts, e \in OptAttrDicts,
                  kw \in {EmptyDict} \cup {[name |-> n] : n \in Names} :
                  BuildAttrs(b, e, kw)
    \/ Idle /\ \E b \in AttrDicts, e \in OptAttrDicts : BuildAttrsCompat(b, e)
    \/ Repeat
    \/ Done

Spec == Init /\ [][Next]_vars
SpecConfig == InitConfig /\ [][Next]_vars

\* -------------------------------------------------------- properties
RenderCall == call.op = "render"
AnyRenderCall == call.op \in {"render", "render_textarea"}
GivenAttrs == IF IsNone(call.attrs) THEN EmptyDict ELSE Get(call.attrs)
\* The widget's own attrs or the render-time attrs supply an id.
IdSupplied == "id" \in (DOMAIN Self(call.target).attrs) \cup (DOMAIN GivenAttrs)

\* C1: MarkItUpWidget.render returns markup and never raises, whatever
\* the name, value and attrs (None and id-less mappings included), under
\* either build_attrs signature variant.
C1_RenderNeverRaises == RenderCall => result.status = "ok"

\* C2: with build_attrs_extra overridden to add a marker attribute, render
\* completes and the marker is in the rendered textarea, under both
\* signature variants (stated for the calls that supply an id).
C2_MarkerRendered ==
    (RenderCall /\ hook = "marker" /\ IdSupplied)
        => /\ result.status = "ok"
           /\ "marker" \in DOMAIN result.textarea.attrs

\* C3: MarkupInput.render hands the base class's render exactly value.raw
\* when value is not None and has a raw attribute, and exactly value
\* otherwise; a missing raw attribute raises nothing; the content rendered
\* for a wrapper value is its raw content, not its own string form.
C3_ValueUnwrapped ==
    AnyRenderCall =>
        /\ result.status # "AttributeError"
        /\ (call.value.kind = "Markup" => result.passed = Str(call.value.raw))
        /\ (call.value.kind # "Markup" => result.passed = call.value)
        /\ (result.status = "ok" =>
                result.textarea.content =
                    CASE call.value.kind = "Markup" -> call.value.raw
                      [] call.value.kind = "str" -> call.value.text
                      [] OTHER -> "")

C3_Witness ==
    /\ AnyRenderCall
    /\ result.status = "ok"
    /\ call.value.kind = "Markup"
    /\ result.textarea.content = "*raw*"
    /\ result.textarea.content # call.value.text

\* C4: when reverse('markitup_preview') raises NoReverseMatch, the
\* preview_url given to the editor template is the empty string and render
\* still returns the textarea followed by the editor markup; when the route
\* resolves, preview_url is the resolved URL.
C4_PreviewFallback ==
    (RenderCall /\ result.reversed) =>
        /\ result.status = "ok"
        /\ result.editor.preview_url = (IF result.no_match THEN EmptyStr ELSE PreviewUrl)
        /\ result.no_match = ~route

\* C5: the textarea_id of the editor markup is the id attribute of the
\* textarea the same render call emitted, whenever an id is supplied,
\* under both signature variants and any build_attrs_extra override.
C5_EditorTargetsTextarea ==
    (RenderCall /\ result.status = "ok") =>
        /\ "id" \in DOMAIN result.textarea.attrs
        /\ result.editor.textarea_id = result.textarea.attrs["id"]

C7_SuppliedAlwaysUsed ==
    call.op = "media" =>
        /\ widget.miu_set = absolute_url(IF IsNone(ctor.markitup_set)
                                         THEN settings.MARKITUP_SET
                                         ELSE Get(ctor.markitup_set))
        /\ widget.miu_skin = absolute_url(IF IsNone(ctor.markitup_skin)
                                          THEN settings.MARKITUP_SKIN
                                          ELSE Get(ctor.markitup_skin))
        /\ widget.auto_preview = (IF IsNone(ctor.auto_preview)
                                  THEN settings.MARKITUP_AUTO_PREVIEW
                                  ELSE Get(ctor.auto_preview))

\* C7 (amended): a non-empty markitup_set or markitup_skin given to the
\* constructor is used instead of the setting, and an omitted or empty one
\* falls back to the setting; any auto_preview given, False included, is
\* used, and an omitted one is the setting's; the script-library URL has no
\* constructor argument and is always settings.JQUERY_URL.
C7_NonEmptySuppliedUsed ==
    LET given(x) == ~IsNone(x) /\ Get(x) # EmptyStr
    IN  \A w \in {widget, admin} :
            /\ w.miu_set = absolute_url(IF given(ctor.markitup_set)
                                        THEN Get(ctor.markitup_set)
                                        ELSE settings.MARKITUP_SET)
            /\ w.miu_skin = absolute_url(IF given(ctor.markitup_skin)
                                         THEN Get(ctor.markitup_skin)
                                         ELSE settings.MARKITUP_SKIN)
            /\ w.auto_preview = (IF IsNone(ctor.auto_preview)
                                 THEN settings.MARKITUP_AUTO_PREVIEW
                                 ELSE Get(ctor.auto_preview))
            /\ (call.op = "media" =>
                    IF IsNone(settings.JQUERY_URL)
                    THEN Len(result.media.js) = 3
                    ELSE /\ Len(result.media.js) = 4
                         /\ result.media.js[1] = absolute_url(Get(settings.JQUERY_URL)))

C7_Witness ==
    /\ call.op = "media"
    /\ ctor.markitup_set = Some(EmptyStr)
    /\ ctor.markitup_skin = Some(Abs(<<"cdn", "miu">>))
    /\ ctor.auto_preview = Some(FALSE)
    /\ settings.MARKITUP_AUTO_PREVIEW = TRUE
    /\ widget.auto_preview = FALSE
    /\ widget.miu_skin = Abs(<<"cdn", "miu">>)

\* C8: for the same name, value, attrs and configuration,
\* AdminMarkItUpWidget.render and MarkItUpWidget.render give the same
\* editor markup and the same media, and textareas that differ in the class
\* attribute only.
C8_AdminSameButClass ==
    /\ (RenderCall /\ call.target = "admin") =>
          LET base == MarkItUpWidget_render(new_style_build_attrs, route, widget,
                                            call.name, call.value, call.attrs)
          IN  /\ result.status = base.status
              /\ result.editor = base.editor
              /\ result.textarea.content = base.textarea.content
              /\ Without(result.textarea.attrs, "class") = Without(base.textarea.attrs, "class")
    /\ (call.op = "media" /\ call.target = "admin") =>
          result.media = MarkItUpWidget_media(settings, widget)

C8_Witness ==
    /\ RenderCall /\ call.target = "admin"
    /\ result.status = "ok"
    /\ result.textarea.attrs["class"] = <<"vLargeTextField">>
    /\ result.editor.textarea_id = <<"id_a">>
    /\ "id" \in DOMAIN widget.attrs
    /\ "class" \notin DOMAIN widget.attrs

\* C9: under both signature variants build_attrs_compat(base_attrs,
\* extra_attrs) returns build_attrs_extra applied once to base_attrs updated
\* by extra_attrs (None included), and build_attrs returns build_attrs_extra
\* applied once to the mapping Django's build_attrs merges.
C9_CompatSameBothVariants ==
    LET extra == IF IsNone(call.extra_attrs) THEN EmptyDict ELSE Get(call.extra_attrs)
    IN  /\ call.op = "build_attrs_compat" =>
              /\ result.status = "ok"
              /\ result.hooks = 1
              /\ result.ret = build_attrs_extra(hook, Update(Get(call.base_attrs), extra))
        /\ call.op = "build_attrs" =>
              /\ result.status = "ok"
              /\ result.hooks = 1
              /\ result.ret = build_attrs_extra(hook,
                    IF new_style_build_attrs
                    THEN Update(Get(call.base_attrs), extra)
                    ELSE Update(Update(widget.attrs, call.kwargs), extra))

C9_Witness ==
    /\ call.op = "build_attrs_compat"
    /\ ~new_style_build_attrs
    /\ hook = "suffix"
    /\ Get(call.base_attrs) = [id |-> <<"id_a">>, class |-> <<"wide">>]
    /\ call.extra_attrs = Some([id |-> <<"id_b">>])
    /\ result.ret = [id |-> <<"id_b", "_miu">>, class |-> <<"wide">>]

\* C10: no render, media, build_attrs or build_attrs_compat call changes
\* the widget's configuration (miu_set, miu_skin, auto_preview, attrs) or,
\* with the default build_attrs_extra, the mappings the caller passed; a
\* call repeated with the same arguments gives the same result.
ConfigKept ==
    /\ widget = MarkItUpWidget_init(settings, hook, ctor)
    /\ admin = AdminMarkItUpWidget_init(settings, hook, ctor)
ArgsKept == hook = "default" => after = Held(call)
C10_NothingMutated ==
    [][/\ ConfigKept' /\ ArgsKept'
       /\ (~Idle /\ call' = call) => result' = result]_vars

C10_Witness ==
    /\ call.op = "build_attrs_compat"
    /\ hook = "default"
    /\ ~new_style_build_attrs
    /\ Get(call.base_attrs) = [id |-> <<"id_a">>]
    /\ call.extra_attrs = Some([class |-> <<"wide">>])
    /\ result.ret = [id |-> <<"id_a">>, class |-> <<"wide">>]
    /\ after.base_attrs = call.base_attrs
====
